---- MODULE Spec2Model ----
(***************************************************************************)
(* Model of torchfilter.filters._particle_filter.ParticleFilter.            *)
(*                                                                         *)
(* Encoding of tensors                                                     *)
(*   particle_states      (N, M, D)  -> sequence of N rows, each a sequence *)
(*                                      of M state values (one value stands *)
(*                                      for one D-vector).                  *)
(*   particle_log_weights (N, M)     -> sequence of N rows of M weights.    *)
(* A log-weight v is stored as the exact positive rational p with           *)
(* v = log(p), written <<numerator, denominator>> in lowest terms.  In this *)
(* encoding  a + b  is RMul,  a - b  is RDiv,  logsumexp  is a sum, and     *)
(* -log(M) is <<1, M>>.  Floating point rounding is not modelled.           *)
(* Particle indices are 0-based as in the source; sequences are 1-based.    *)
(***************************************************************************)
EXTENDS Integers, Sequences, FiniteSets, TLC

\* ------------------------------------------------------------------ bounds
MaxParticles == 2
MaxSteps == 2
MaxSelect == 3
MaxRebalance == 5

\* --------------------------------------------------------- input alphabets
\* One batch row is modelled in the filter's life cycle; rows never interact
\* except that rebalancing gives every row the same index row.  A negative
\* particle count and a coefficient above 1 stand for the configurations
\* outside the documented ranges.  EstimationMethods has one unsupported name.
StateVals == {0, 1}
Observations == {0, 1}
BatchSizes == {1}
ParticleCounts == 1..MaxParticles
CtorParticleCounts == {-1} \cup ParticleCounts
ResampleModes == {"None", "True", "False"}
Alphas == {<<1, 2>>, <<1, 1>>, <<3, 2>>}
EstimationMethods == {"weighted_average", "argmax", "median"}

\* ------------------------------------------------------ rational arithmetic
RECURSIVE GCD(_, _)
GCD(a, b) == IF b = 0 THEN a ELSE GCD(b, a % b)

RNorm(n, d) == LET g == GCD(n, d) IN IF g = 0 THEN <<0, 1>> ELSE <<n \div g, d \div g>>

\* Products and sums cancel common factors before multiplying, so that no
\* intermediate value is larger than the reduced result requires.
RMul(a, b) ==
    LET g1 == GCD(a[1], b[2])
        g2 == GCD(b[1], a[2])
    IN  IF a[1] = 0 \/ b[1] = 0 THEN <<0, 1>>
        ELSE <<(a[1] \div g1) * (b[1] \div g2), (a[2] \div g2) * (b[2] \div g1)>>
RDiv(a, b) == RMul(a, <<b[2], b[1]>>)
RAdd(a, b) ==
    LET g == GCD(a[2], b[2])
    IN  RNorm(a[1] * (b[2] \div g) + b[1] * (a[2] \div g), (a[2] \div g) * b[2])
RLess(a, b) ==
    LET g == GCD(a[2], b[2]) IN a[1] * (b[2] \div g) < b[1] * (a[2] \div g)

RECURSIVE RSum(_)
RSum(row) == IF row = <<>> THEN <<0, 1>> ELSE RAdd(Head(row), RSum(Tail(row)))

\* ------------------------------------------------------------ tensor helpers
NumRows(t) == Len(t)
NumCols(t) == IF Len(t) = 0 THEN 0 ELSE Len(t[1])
Full(n, m, v) == [i \in 1..n |-> [j \in 1..m |-> v]]
Rows(n, m, S) == [1..n -> [1..m -> S]]


\* ------------------------------------------------------------------- state
VARIABLES
    constructed,           \* a ParticleFilter instance exists
    num_particles,         \* self.num_particles (target count M*)
    resample,              \* self.resample: "None" | "True" | "False"
    soft_resample_alpha,   \* self.soft_resample_alpha, a rational
    estimation_method,     \* self.estimation_method
    training,              \* self.training (torch.nn.Module mode flag)
    initialized,           \* self._initialized
    particle_states,       \* self.particle_states, N rows of M values
    particle_log_weights,  \* self.particle_log_weights, N rows of M rationals
    steps,                 \* number of forward calls made so far
    last,                  \* outcome of the most recent call on the instance
    sel                    \* argument/result record of an isolated selection call

vars == <<constructed, num_particles, resample, soft_resample_alpha,
          estimation_method, training, initialized, particle_states,
          particle_log_weights, steps, last, sel>>

config == <<num_particles, resample, soft_resample_alpha, estimation_method>>
belief == <<particle_states, particle_log_weights>>

NoCall == [op |-> "none", ok |-> TRUE, stage |-> "none", decision |-> FALSE,
           rebalanced |-> FALSE, resampled |-> FALSE, M0 |-> 0,
           estimate |-> <<>>, best |-> <<>>]
Idle == [phase |-> "idle"]

\* --------------------------------------------------------------- __init__
\* The only configuration check of the constructor besides the submodule
\* asserts: `assert estimation_method in ("weighted_average", "argmax")`.
CtorAccepts(models_ok, n, alpha, method) ==
    /\ models_ok
    /\ method \in {"weighted_average", "argmax"}

NoInstance ==
    /\ constructed = FALSE
    /\ num_particles = 0
    /\ resample = "None"
    /\ soft_resample_alpha = <<1, 1>>
    /\ estimation_method = "weighted_average"
    /\ training = TRUE
    /\ initialized = FALSE
    /\ particle_states = <<>>
    /\ particle_log_weights = <<>>
    /\ steps = 0
    /\ last = NoCall

Init == NoInstance /\ sel = Idle

Construct ==
    /\ ~constructed
    /\ \E models_ok \in BOOLEAN, n \in CtorParticleCounts, r \in ResampleModes,
          alpha \in Alphas, method \in EstimationMethods :
        IF CtorAccepts(models_ok, n, alpha, method)
        THEN /\ constructed' = TRUE
             /\ num_particles' = n
             /\ resample' = r
             /\ soft_resample_alpha' = alpha
             /\ estimation_method' = method
             /\ training' = TRUE
             /\ initialized' = FALSE
             /\ last' = [NoCall EXCEPT !.op = "construct"]
             /\ UNCHANGED <<belief, steps, sel>>
        ELSE /\ last' = [NoCall EXCEPT !.op = "construct", !.ok = FALSE,
                                       !.stage = "configuration"]
             /\ UNCHANGED <<constructed, config, training, initialized,
                            belief, steps, sel>>

\* ------------------------------------------------------ attribute updates
SetNumParticles ==
    /\ constructed
    /\ \E n \in ParticleCounts :
        /\ n # num_particles
        /\ num_particles' = n
    /\ last' = [NoCall EXCEPT !.op = "set"]
    /\ UNCHANGED <<constructed, resample, soft_resample_alpha, estimation_method,
                   training, initialized, belief, steps, sel>>

SetResample ==
    /\ constructed
    /\ \E r \in ResampleModes :
        /\ r # resample
        /\ resample' = r
    /\ last' = [NoCall EXCEPT !.op = "set"]
    /\ UNCHANGED <<constructed, num_particles, soft_resample_alpha,
                   estimation_method, training, initialized, belief, steps, sel>>

SetTraining ==
    /\ constructed
    /\ training' = ~training
    /\ last' = [NoCall EXCEPT !.op = "set"]
    /\ UNCHANGED <<constructed, config, initialized, belief, steps, sel>>

\* ----------------------------------------------------- initialize_beliefs
\* Variant that samples one particle more than configured.
InitParticleCountBug(n) == IF n > 0 THEN n + 1 ELSE n

\* Line 92.
InitParticleCount(n) == n

\* Lines 104-106: the fill value -log(M).
UniformLogWeight(M) == <<1, M>>

\* Lines 78-110.  The call raises, before any assignment, when the shape
\* asserts of lines 90-91 fail (shapes_ok), when MultivariateNormal rejects
\* the covariance (cov_pd), or when the sample shape (M,) is negative.
initialize_beliefs ==
    /\ constructed
    /\ \E N \in BatchSizes, shapes_ok \in BOOLEAN, cov_pd \in BOOLEAN :
        LET M == InitParticleCount(num_particles) IN
        IF shapes_ok /\ cov_pd /\ M >= 0
        THEN \E sampled \in Rows(N, M, StateVals) :
                /\ particle_states' = sampled
                /\ particle_log_weights' = Full(N, M, UniformLogWeight(M))
                /\ initialized' = TRUE
                /\ last' = [NoCall EXCEPT !.op = "init"]
        ELSE /\ last' = [NoCall EXCEPT !.op = "init", !.ok = FALSE,
                                       !.stage = "precondition"]
             /\ UNCHANGED <<initialized, belief>>
    /\ UNCHANGED <<constructed, config, training, steps, sel>>

\* ---------------------------------------------------------------- forward
\* Variant with the automatic mode inverted (resample in train mode).
ResampleDecisionBug(r, train) == IF r = "None" THEN train ELSE r = "True"

\* Lines 142-148: explicit mode wins, otherwise resample exactly in eval mode.
ResampleDecision(r, train) == IF r = "None" THEN ~train ELSE r = "True"

\* Variant that rebalances whenever the counts differ, resampling or not.
NeedsRebalanceBug(decision, target, M) == target # M

\* Line 153.
NeedsRebalance(decision, target, M) == ~decision /\ target # M

\* torch.randperm(M): the permutations of 0..M-1 as sequences of length M.
Perms(M) == {p \in [1..M -> 0..(M - 1)] : \A a, b \in 1..M : p[a] = p[b] => a = b}

\* Line 160.
CopyCount(target, M) == (target \div M) * M

\* Variant whose copied part repeats each index in a block (0,0,1,1,...)
\* instead of cycling (0,1,0,1,...).
RebalanceIndicesBug(target, M, perm) ==
    LET copy_count == CopyCount(target, M)
    IN  [j \in 1..target |->
            IF j <= copy_count THEN (j - 1) \div (copy_count \div M)
                               ELSE perm[j - copy_count]]

\* Lines 154-172, one row of `indices` (every batch row receives the same row).
RebalanceIndices(target, M, perm) ==
    LET copy_count == CopyCount(target, M)
    IN  [j \in 1..target |->
            IF j <= copy_count THEN (j - 1) % M ELSE perm[j - copy_count]]

\* tensor.gather(1, indices) on one row.
Gather(row, idx) == [j \in 1..Len(idx) |-> row[idx[j] + 1]]
GatherRows(t, indices) == [i \in 1..Len(t) |-> Gather(t[i], indices[i])]

\* x - logsumexp(x, dim=1, keepdim=True) on one row.
Normalize(row) == LET total == RSum(row) IN [j \in 1..Len(row) |-> RDiv(row[j], total)]
NormalizeRows(t) == [i \in 1..Len(t) |-> Normalize(t[i])]

\* Lines 174-186: gather states and weights by the same indices, renormalise.
Rebalance(ps, plw, target, perm) ==
    LET N == NumRows(ps)
        M == NumCols(ps)
        indices == [i \in 1..N |-> RebalanceIndices(target, M, perm)]
    IN  [states |-> GatherRows(ps, indices),
         weights |-> NormalizeRows(GatherRows(plw, indices)),
         indices |-> indices]

\* The measurement model is a pure function of (state, observation); this
\* instance scores a particle that agrees with the observation twice as high.
Likelihood(obs, s) == IF s = obs THEN <<2, 1>> ELSE <<1, 1>>

\* Lines 215-218.
Reweight(plw, ps, obs) ==
    [i \in 1..Len(plw) |->
        [j \in 1..Len(plw[i]) |-> RMul(plw[i][j], Likelihood(obs[i], ps[i][j]))]]

\* Lines 232-242 on one row.
WeightedAverage(srow, wrow) ==
    RSum([j \in 1..Len(srow) |-> RMul(<<srow[j], 1>>, wrow[j])])

\* torch.argmax(dim=1) on one row: 0-based index of the first maximal entry.
ArgMax(wrow) ==
    (CHOOSE j \in 1..Len(wrow) :
        /\ \A k \in 1..Len(wrow) : ~RLess(wrow[j], wrow[k])
        /\ \A k \in 1..(j - 1) : RLess(wrow[k], wrow[j])) - 1

\* torch.gather requires the index tensor to have as many dimensions as the
\* input tensor and raises otherwise.
GatherAccepts(input_rank, index_rank) == input_rank = index_rank

\* Lines 245-247: particle_states has shape (N, M, state_dim), best_indices
\* has shape (N,).
ArgmaxGatherAccepts == GatherAccepts(3, 1)

\* ------------------------------------------------------------- _resample
OneMinus(alpha) == <<alpha[2] - alpha[1], alpha[2]>>

\* Line 272.
IsSoft(alpha) == RLess(alpha, <<1, 1>>)

\* Lines 269-271: shape (N, self.num_particles), fill value -log(M).
UniformLogWeights(N, target, M) == Full(N, target, UniformLogWeight(M))

\* Lines 275-284: torch.stack needs both operands to have one shape.
StackAccepts(plw, uniform) ==
    NumRows(plw) = NumRows(uniform) /\ NumCols(plw) = NumCols(uniform)

SoftLogits(plw, uniform, alpha) ==
    [i \in 1..Len(plw) |->
        [j \in 1..Len(plw[i]) |->
            RAdd(RMul(plw[i][j], alpha), RMul(uniform[i][j], OneMinus(alpha)))]]

\* Line 285.
SoftWeights(plw, logits) ==
    [i \in 1..Len(plw) |-> [j \in 1..Len(plw[i]) |-> RDiv(plw[i][j], logits[i][j])]]

\* Lines 262-305.  `draws` is the outcome of distribution.sample(...).T, an
\* (N, self.num_particles) array of indices into the M current particles;
\* every weight is positive, so every index can be drawn.
\* Only particle_states is gathered by it.
Resample(ps, plw, target, alpha, draws) ==
    LET N == NumRows(ps)
        M == NumCols(ps)
        uniform == UniformLogWeights(N, target, M)
    IN  IF IsSoft(alpha)
        THEN IF ~StackAccepts(plw, uniform)
             THEN [ok |-> FALSE, states |-> ps, weights |-> plw,
                   logits |-> <<>>, indices |-> <<>>]
             ELSE LET logits == SoftLogits(plw, uniform, alpha)
                  IN  [ok |-> TRUE, states |-> GatherRows(ps, draws),
                       weights |-> SoftWeights(plw, logits),
                       logits |-> logits, indices |-> draws]
        ELSE [ok |-> TRUE, states |-> GatherRows(ps, draws),
              weights |-> uniform, logits |-> plw, indices |-> draws]

\* ------------------------------------------------------- forward, whole
\* Variant without the initialisation precondition.
ForwardAcceptsBug(is_initialized) == TRUE

\* Line 133.
ForwardAccepts(is_initialized) == is_initialized

\* Lines 256-258.
PostCondition(estimate, ps, plw, N, target) ==
    /\ Len(estimate) = N
    /\ NumRows(ps) = N /\ \A i \in 1..N : Len(ps[i]) = target
    /\ NumRows(plw) = N /\ \A i \in 1..N : Len(plw[i]) = target

Outcome(ok, stage, ps, plw, decision, rebalanced, resampled, M0, estimate, best) ==
    [ok |-> ok, stage |-> stage, states |-> ps, weights |-> plw,
     decision |-> decision, rebalanced |-> rebalanced, resampled |-> resampled,
     M0 |-> M0, estimate |-> estimate, best |-> best]

\* Lines 132-249: preconditions, rebalancing, propagation, reweighting and
\* estimation.  `in` carries everything this part receives from outside:
\*   controls_len  batch length of `controls`
\*   fault         "none", or which collaborator raises ("dynamics",
\*                 "measurement")
\*   perm          the torch.randperm(M) draw (used when rebalancing)
\*   sampled       the rsample() draw around the dynamics prediction, (N, M)
\*   obs           one observation per batch row
\* The result holds the belief arrays as the last assignment to `self` left
\* them; ok = FALSE means the call has raised at `stage`.
ForwardEstimate(is_initialized, ps, plw, target, r, train, method, in) ==
    LET N == NumRows(ps)
        M == NumCols(ps)
        decision == ResampleDecision(r, train)
    IN  IF ~ForwardAccepts(is_initialized)
        THEN Outcome(FALSE, "precondition", ps, plw, FALSE, FALSE, FALSE, M, <<>>, <<>>)
        ELSE IF in.controls_len # N
        THEN Outcome(FALSE, "precondition", ps, plw, FALSE, FALSE, FALSE, M, <<>>, <<>>)
        ELSE
        LET reb == NeedsRebalance(decision, target, M)
            rb  == IF reb THEN Rebalance(ps, plw, target, in.perm)
                          ELSE [states |-> ps, weights |-> plw, indices |-> <<>>]
        IN  IF in.fault = "dynamics"
            THEN Outcome(FALSE, "dynamics", rb.states, rb.weights,
                         decision, reb, FALSE, M, <<>>, <<>>)
            ELSE
            LET ps2 == in.sampled
            IN  IF in.fault = "measurement"
                THEN Outcome(FALSE, "measurement", ps2, rb.weights,
                             decision, reb, FALSE, M, <<>>, <<>>)
                ELSE
                LET plw3 == NormalizeRows(Reweight(rb.weights, ps2, in.obs))
                    best == IF method = "argmax"
                            THEN [i \in 1..N |-> ArgMax(plw3[i])] ELSE <<>>
                    est_ok == CASE method = "weighted_average" -> TRUE
                                [] method = "argmax" -> ArgmaxGatherAccepts
                                [] OTHER -> FALSE
                    estimate ==
                        CASE method = "weighted_average" ->
                                [i \in 1..N |-> WeightedAverage(ps2[i], plw3[i])]
                          [] method = "argmax" ->
                                [i \in 1..N |-> <<ps2[i][best[i] + 1], 1>>]
                          [] OTHER -> <<>>
                IN  IF ~est_ok
                    THEN Outcome(FALSE, "estimation", ps2, plw3,
                                 decision, reb, FALSE, M, <<>>, best)
                    ELSE Outcome(TRUE, "estimated", ps2, plw3,
                                 decision, reb, FALSE, M, estimate, best)

\* Lines 251-260: the resampling call and the post-conditions, applied to an
\* outcome of ForwardEstimate that has not raised.  `draws` is the
\* Categorical draw of _resample, (N, num_particles).
ForwardFinish(pre, target, alpha, draws) ==
    LET N == NumRows(pre.states)
        rs == IF pre.decision
              THEN Resample(pre.states, pre.weights, target, alpha, draws)
              ELSE [ok |-> TRUE, states |-> pre.states, weights |-> pre.weights]
    IN  IF ~rs.ok
        THEN [pre EXCEPT !.ok = FALSE, !.stage = "resample", !.resampled = TRUE,
                         !.estimate = <<>>]
        ELSE IF ~PostCondition(pre.estimate, rs.states, rs.weights, N, target)
        THEN [pre EXCEPT !.ok = FALSE, !.stage = "postcondition",
                         !.states = rs.states, !.weights = rs.weights,
                         !.resampled = pre.decision, !.estimate = <<>>]
        ELSE [pre EXCEPT !.stage = "return", !.states = rs.states,
                         !.weights = rs.weights, !.resampled = pre.decision]

Faults == {"none", "dynamics", "measurement"}

\* The call leaves the belief arrays and its outcome behind.
Deliver(res) ==
    /\ particle_states' = res.states
    /\ particle_log_weights' = res.weights
    /\ last' = [op |-> "step", ok |-> res.ok, stage |-> res.stage,
                decision |-> res.decision, rebalanced |-> res.rebalanced,
                resampled |-> res.resampled, M0 |-> res.M0,
                estimate |-> res.estimate, best |-> res.best]

forward ==
    /\ constructed
    /\ steps < MaxSteps
    /\ LET N == NumRows(particle_states)
           M == NumCols(particle_states)
           decision == ResampleDecision(resample, training)
           reb == NeedsRebalance(decision, num_particles, M)
           M1 == IF reb THEN num_particles ELSE M
           live == initialized
       IN  \E controls_len \in (IF live THEN {N, N + 1} ELSE {N}) :
           \E fault \in (IF live /\ controls_len = N THEN Faults ELSE {"none"}) :
           \E perm \in (IF live /\ controls_len = N /\ reb THEN Perms(M) ELSE {<<>>}) :
           \E sampled \in (IF live /\ controls_len = N /\ fault # "dynamics"
                           THEN Rows(N, M1, StateVals) ELSE {<<>>}) :
           \E obs \in (IF live /\ controls_len = N /\ fault = "none"
                       THEN [1..N -> Observations] ELSE {<<>>}) :
              LET pre == ForwardEstimate(initialized, particle_states,
                                         particle_log_weights, num_particles,
                                         resample, training, estimation_method,
                                         [controls_len |-> controls_len,
                                          fault |-> fault, perm |-> perm,
                                          sampled |-> sampled, obs |-> obs])
              IN  IF ~pre.ok
                  THEN Deliver(pre)
                  ELSE \E draws \in (IF pre.decision
                                     THEN Rows(N, num_particles, 0..(M1 - 1))
                                     ELSE {<<>>}) :
                          Deliver(ForwardFinish(pre, num_particles,
                                                soft_resample_alpha, draws))
    /\ steps' = steps + 1
    /\ UNCHANGED <<constructed, config, training, initialized, sel>>

Next ==
    \/ Construct
    \/ initialize_beliefs
    \/ forward
    \/ SetNumParticles
    \/ SetResample
    \/ SetTraining

Spec == Init /\ [][Next]_vars


\* ------------------------------------------------------------------------
\* The two particle-selection computations in isolation: the index
\* construction of the rebalancing block of forward (lines 153-186) and
\* _resample (lines 262-305), applied to belief arrays drawn from bounded
\* sets.  `sel` holds the arguments and, once applied, the results.
\* Particle j of a row carries the state value j, so that every particle of
\* a row is distinguishable.
SelStates(N, M) == [i \in 1..N |-> [j \in 1..M |-> j - 1]]

\* Normalised weight rows: uniform, or proportional to 1, 2, ..., M.
SelWeightRows(M) ==
    {[j \in 1..M |-> <<1, M>>],
     Normalize([j \in 1..M |-> <<j, 1>>])}

SelArgs(kind, N, M, target, alpha, plw) ==
    [phase |-> "args", kind |-> kind, states |-> SelStates(N, M), weights |-> plw,
     target |-> target, alpha |-> alpha, perm |-> <<>>, ok |-> TRUE,
     out_states |-> <<>>, out_weights |-> <<>>, indices |-> <<>>, logits |-> <<>>]

SelInit ==
    /\ NoInstance
    /\ \/ \E M \in 1..MaxSelect, target \in 1..MaxSelect, alpha \in Alphas :
          \E plw \in [1..1 -> SelWeightRows(M)] :
             sel = SelArgs("resample", 1, M, target, alpha, plw)
       \/ \E N \in 1..2, M \in 1..MaxRebalance, target \in 1..MaxRebalance :
          \E plw \in [1..N -> SelWeightRows(M)] :
             /\ M # target
             /\ sel = SelArgs("rebalance", N, M, target, <<1, 1>>, plw)

ApplyResample ==
    /\ sel.phase = "args" /\ sel.kind = "resample"
    /\ \E draws \in Rows(NumRows(sel.states), sel.target, 0..(NumCols(sel.states) - 1)) :
        LET rs == Resample(sel.states, sel.weights, sel.target, sel.alpha, draws)
        IN  sel' = [sel EXCEPT !.phase = "done", !.ok = rs.ok,
                               !.out_states = rs.states, !.out_weights = rs.weights,
                               !.indices = rs.indices, !.logits = rs.logits]
    /\ UNCHANGED <<constructed, config, training, initialized, belief, steps, last>>

ApplyRebalance ==
    /\ sel.phase = "args" /\ sel.kind = "rebalance"
    /\ \E perm \in Perms(NumCols(sel.states)) :
        LET rb == Rebalance(sel.states, sel.weights, sel.target, perm)
        IN  sel' = [sel EXCEPT !.phase = "done", !.perm = perm,
                               !.out_states = rb.states, !.out_weights = rb.weights,
                               !.indices = rb.indices]
    /\ UNCHANGED <<constructed, config, training, initialized, belief, steps, last>>

SelNext == ApplyResample \/ ApplyRebalance

SelSpec == SelInit /\ [][SelNext]_vars


\* ======================================================================
\* Properties
\* ======================================================================
StepDone == last.op = "step"
StepReturned == last.op = "step" /\ last.ok
\* The resample policy written out from the documentation of `resample`.
Policy == resample = "True" \/ (resample = "None" /\ ~training)
AllCountsAre(n) ==
    /\ NumRows(particle_states) = NumRows(particle_log_weights)
    /\ \A i \in 1..NumRows(particle_states) :
          Len(particle_states[i]) = n /\ Len(particle_log_weights[i]) = n

\* C1: forward on a filter whose initialize_beliefs has not yet completed
\* raises at the initialisation precondition; the flag is false from
\* construction until initialize_beliefs first completes, is true from then
\* on, and a forward call gets past the precondition only when it is true.
C1_InitializedGate ==
    /\ [](StepDone /\ ~initialized => ~last.ok /\ last.stage = "precondition")
    /\ [](StepDone /\ last.stage # "precondition" => initialized)
    /\ [](last.op = "init" /\ last.ok => initialized)
    /\ [](last.op = "construct" => ~initialized)
    /\ [][initialized => initialized']_vars
    /\ [][~initialized /\ initialized' => last'.op = "init" /\ last'.ok]_vars

C1_Witness == StepDone /\ ~initialized /\ ~last.ok /\ last.stage = "precondition"

C3_StandardResampleUniform ==
    StepReturned /\ last.resampled /\ ~RLess(soft_resample_alpha, <<1, 1>>) =>
        /\ AllCountsAre(num_particles)
        /\ \A i \in 1..NumRows(particle_log_weights) :
              \A j \in 1..Len(particle_log_weights[i]) :
                 particle_log_weights[i][j] = <<1, num_particles>>

\* C4: _resample completes for either algorithm and any current and target
\* count, draws `target` indices per row, each in [0, M), and yields exactly
\* `target` states per row, each the state of the drawn source particle.
C4_ResampleTotal ==
    sel.phase = "done" /\ sel.kind = "resample" =>
        /\ sel.ok
        /\ NumRows(sel.out_states) = NumRows(sel.states)
        /\ \A i \in 1..NumRows(sel.states) :
              /\ Len(sel.indices[i]) = sel.target
              /\ Len(sel.out_states[i]) = sel.target
              /\ \A j \in 1..sel.target :
                    /\ sel.indices[i][j] \in 0..(Len(sel.states[i]) - 1)
                    /\ sel.out_states[i][j] = sel.states[i][sel.indices[i][j] + 1]

\* C5: rebalancing M particles to `target` builds, per row, `target` indices
\* of which the first copies = floor(target / M) * M run cyclically through
\* 0..M-1 and the rest are the first target - copies entries of the random
\* permutation, pairwise distinct and within [0, M); every output state is
\* the state of the indexed original particle.
C5_RebalanceIndices ==
    sel.phase = "done" /\ sel.kind = "rebalance" =>
        LET M == NumCols(sel.states)
            copies == (sel.target \div M) * M
        IN  \A i \in 1..NumRows(sel.states) :
              /\ Len(sel.indices[i]) = sel.target
              /\ Len(sel.out_states[i]) = sel.target
              /\ \A j \in 1..sel.target :
                    /\ sel.indices[i][j] \in 0..(M - 1)
                    /\ j <= copies => sel.indices[i][j] = (j - 1) % M
                    /\ j > copies => sel.indices[i][j] = sel.perm[j - copies]
                    /\ sel.out_states[i][j] = sel.states[i][sel.indices[i][j] + 1]
                    /\ \E k \in 1..M : sel.out_states[i][j] = sel.states[i][k]
              /\ \A j, k \in (copies + 1)..sel.target :
                    sel.indices[i][j] = sel.indices[i][k] => j = k
              /\ (sel.target % M = 0 => copies = sel.target)
              /\ (sel.target < M => copies = 0)

C5_Witness ==
    /\ sel.phase = "done" /\ sel.kind = "rebalance"
    /\ NumCols(sel.states) = 2 /\ sel.target = 5
    /\ \A i \in 1..NumRows(sel.states) :
          /\ sel.indices[i][1] = 0 /\ sel.indices[i][2] = 1
          /\ sel.indices[i][3] = 0 /\ sel.indices[i][4] = 1
          /\ sel.indices[i][5] = 1

\* C6 (as stated): a forward call that raises leaves both belief arrays
\* exactly as they were before the call.
C6_AllOrNothing ==
    [][steps' = steps + 1 /\ ~last'.ok => UNCHANGED belief]_vars

\* C6 (amended): a forward call that raises before its first assignment to
\* the belief -- at a precondition or shape check, or at the dynamics model
\* in a step that resamples or whose count already equals the target --
\* leaves both belief arrays exactly as they were, and the instance stays
\* initialised.
C6_FailBeforeWrite ==
    [][(/\ steps' = steps + 1
        /\ ~last'.ok
        /\ \/ last'.stage = "precondition"
           \/ /\ last'.stage = "dynamics"
              /\ (Policy \/ NumCols(particle_states) = num_particles))
       => UNCHANGED <<belief, initialized>>]_vars

C6_Witness ==
    /\ StepDone /\ ~last.ok /\ last.stage = "dynamics"
    /\ initialized /\ Policy /\ last.M0 # num_particles

\* C7: a constructed instance always has a supported estimation method, a
\* positive particle count and a coefficient in (0, 1], and no forward call
\* gets past its preconditions with any other configuration.
C7_ConstructionRejectsInvalid ==
    constructed =>
        /\ estimation_method \in {"weighted_average", "argmax"}
        /\ num_particles > 0
        /\ RLess(<<0, 1>>, soft_resample_alpha)
        /\ ~RLess(<<1, 1>>, soft_resample_alpha)

\* C8: with estimation method argmax, a forward call on an initialised
\* filter whose collaborators do not raise returns, per batch row, the state
\* of the first particle of maximal post-reweighting log-weight.
C8_ArgmaxEstimate ==
    /\ StepDone /\ estimation_method = "argmax"
    /\ last.stage \notin {"precondition", "dynamics", "measurement"}
    => /\ last.ok
       /\ Len(last.estimate) = NumRows(particle_states)
       /\ ~last.resampled =>
            \A i \in 1..NumRows(particle_states) :
               last.estimate[i] =
                  <<particle_states[i][ArgMax(particle_log_weights[i]) + 1], 1>>

\* C9: a forward call invokes _resample exactly when the mode is forced on,
\* or unset in eval mode; it rebalances exactly when it does not resample and
\* the current count differs from the target; no call does both, and with
\* the mode unset a training-mode call never resamples.
C9_ResamplePolicy ==
    StepDone =>
        /\ last.resampled => Policy
        /\ last.stage \in {"resample", "postcondition", "return"} =>
              (last.resampled <=> Policy)
        /\ last.rebalanced => ~Policy /\ last.M0 # num_particles
        /\ last.stage # "precondition" =>
              (last.rebalanced <=> (~Policy /\ last.M0 # num_particles))
        /\ ~(last.rebalanced /\ last.resampled)
        /\ (resample = "None" /\ training => ~last.resampled)

C9_Witness ==
    StepReturned /\ last.resampled /\ resample = "None" /\ ~training

\* C10: after rebalancing and after either kind of resampling, slot j of a
\* row holds the state of the selected source particle together with the
\* log-weight derived from that same particle: its renormalised weight after
\* rebalancing, the uniform weight after standard resampling, its old
\* log-weight minus its sampling logit after soft resampling.
C10_PairingPreserved ==
    sel.phase = "done" /\ sel.ok =>
        \A i \in 1..NumRows(sel.states) :
           /\ Len(sel.out_weights[i]) = Len(sel.out_states[i])
           /\ \A j \in 1..Len(sel.out_states[i]) :
                 LET src == sel.indices[i][j] + 1
                 IN  /\ sel.out_states[i][j] = sel.states[i][src]
                     /\ CASE sel.kind = "rebalance" ->
                               sel.out_weights[i][j] =
                                  RDiv(sel.weights[i][src],
                                       RSum(Gather(sel.weights[i], sel.indices[i])))
                          [] RLess(sel.alpha, <<1, 1>>) ->
                               sel.out_weights[i][j] =
                                  RDiv(sel.weights[i][src], sel.logits[i][src])
                          [] OTHER ->
                               \A k \in 1..Len(sel.out_weights[i]) :
                                  sel.out_weights[i][k] = sel.out_weights[i][j]

====
